---- MODULE Spec2Model ----
(***************************************************************************)
(* Model of the Bioscope LinkedIn auto-poster: post_to_linkedin.py (one    *)
(* run of main), config.py (module-level configuration), and               *)
(* scripts/get_linkedin_token.py (one run of the OAuth helper: its main    *)
(* thread and the callback requests its listener thread handles).          *)
(*                                                                         *)
(* Strings whose characters the code looks at (dates) are sequences of     *)
(* one-character strings; opaque strings are TLA+ strings.  A Python dict  *)
(* is a function from its keys; a missing key is a key not in DOMAIN.      *)
(* An f-string is the tuple of its literal parts and interpolated values.  *)
(*                                                                         *)
(* Left out: the log lines; calendar.json or system_prompt.txt missing or  *)
(* unparsable (an uncaught exception before any call); the validated image *)
(* file unreadable at line 174 (caught like a failed upload); in the helper *)
(* the listener failing to bind its port (no callback is ever handled).    *)
(***************************************************************************)
EXTENDS Integers, Sequences, FiniteSets, TLC

VARIABLES
    args,           \* argparse namespace: dry_run, date, force
    today,          \* what date.today() returns during this run
    config,         \* config.py module attributes read from the environment
    calendar,       \* content/calendar.json, what load_calendar() returns
    pc,             \* position of main()
    target_date,    \* main: target_date
    post,           \* main: post (entry found, or None)
    post_text,      \* main: post_text
    person_urn,     \* main: person_urn
    upload_url,     \* upload_image_to_linkedin: upload_url
    asset_urn,      \* main: asset_urn / upload_image_to_linkedin: asset_urn
    error,          \* the exception in flight (caught as e, or uncaught)
    exit_code,      \* status the process ends with (0 unless sys.exit(1)/uncaught)
    calls,          \* history: outbound network calls, in order
    notified,       \* history: invocations of send_slack_notification
    steps,          \* history: the steps of main taken so far
    auth_code,      \* get_linkedin_token.py: the global auth_code
    elapsed,        \* helper main: time.time() - start, in whole seconds
    token_data,     \* helper main: token_data
    handled,        \* history: the callback requests handled, in order
    loop_end        \* history: why the polling loop of the helper ended

vars == <<args, today, config, calendar, pc, target_date, post, post_text,
          person_urn, upload_url, asset_urn, error, exit_code, calls, notified, steps,
          auth_code, elapsed, token_data, handled, loop_end>>

\* the state of the OAuth helper, which a run of the poster leaves alone
oauth_vars == <<auth_code, elapsed, token_data, handled, loop_end>>

-----------------------------------------------------------------------------
(* Bounds of the model *)

\* days of June 2024 a run may target, starting on Sunday 2024-06-02
MaxDays == 3
\* longest calendar handed to get_todays_post on its own
MaxLookupLen == 3
\* longest calendar.json
MaxCal == 2

-----------------------------------------------------------------------------
(* Python values *)

\* None where a dict or a sequence is expected (both are falsy, like {} and "")
None == <<>>

\* an unset environment variable and an empty one are both falsy; also the
\* value of a string local of main before its assignment
Unset == ""

\* dict.get(key, default)
DictGet(d, k, default) == IF k \in DOMAIN d THEN d[k] ELSE default

\* bool(v) of a str-or-None value
Truthy(v) == v # Unset

-----------------------------------------------------------------------------
(* datetime.date: isoformat, fromisoformat, strftime("%A") *)

Digits == <<"0", "1", "2", "3", "4", "5", "6", "7", "8", "9">>

IsDigit(c) == \E i \in 1..10 : Digits[i] = c

DigitVal(c) == (CHOOSE i \in 1..10 : Digits[i] = c) - 1

Pad2(n) == <<Digits[((n \div 10) % 10) + 1], Digits[(n % 10) + 1]>>

Pad4(n) == <<Digits[((n \div 1000) % 10) + 1], Digits[((n \div 100) % 10) + 1]>> \o Pad2(n % 100)

IsLeap(y) == y % 4 = 0 /\ (y % 100 # 0 \/ y % 400 = 0)

DaysInMonth(y, m) ==
    IF m = 2 THEN (IF IsLeap(y) THEN 29 ELSE 28)
    ELSE IF m \in {4, 6, 9, 11} THEN 30 ELSE 31

RECURSIVE DaysBeforeMonth(_, _)
DaysBeforeMonth(y, m) ==
    IF m = 1 THEN 0 ELSE DaysBeforeMonth(y, m - 1) + DaysInMonth(y, m - 1)

DaysBeforeYear(y) ==
    ((y - 1) * 365) + ((y - 1) \div 4) - ((y - 1) \div 100) + ((y - 1) \div 400)

\* proleptic Gregorian ordinal, 0001-01-01 is day 1
toordinal(d) == DaysBeforeYear(d.year) + DaysBeforeMonth(d.year, d.month) + d.day

\* date.weekday(): Monday is 0
weekday(d) == (toordinal(d) + 6) % 7

DayNames == <<"monday", "tuesday", "wednesday", "thursday", "friday", "saturday", "sunday">>

\* target_date.strftime("%A").lower()
day_name_of(d) == DayNames[weekday(d) + 1]

\* date.isoformat(): YYYY-MM-DD, zero padded
isoformat(d) == Pad4(d.year) \o <<"-">> \o Pad2(d.month) \o <<"-">> \o Pad2(d.day)

Num2(s, i) == (DigitVal(s[i]) * 10) + DigitVal(s[i + 1])

\* date.fromisoformat(s) accepts exactly YYYY-MM-DD with a valid month and day
IsIsoDate(s) ==
    /\ Len(s) = 10
    /\ s[5] = "-" /\ s[8] = "-"
    /\ \A i \in {1, 2, 3, 4, 6, 7, 9, 10} : IsDigit(s[i])
    /\ LET y == (Num2(s, 1) * 100) + Num2(s, 3)
           m == Num2(s, 6)
           d == Num2(s, 9)
       IN  y >= 1 /\ m \in 1..12 /\ d >= 1 /\ d <= DaysInMonth(y, m)

fromisoformat(s) ==
    [year |-> (Num2(s, 1) * 100) + Num2(s, 3), month |-> Num2(s, 6), day |-> Num2(s, 9)]

-----------------------------------------------------------------------------
(* config.py *)

POSTING_DAYS == [sunday |-> "gene", tuesday |-> "intervention", thursday |-> "topic"]

\* files present under config.IMAGES_DIR
ImagesOnDisk == {"w.jpg"}

-----------------------------------------------------------------------------
(* Inputs of a run: command line, environment, clock *)

FirstDay == [year |-> 2024, month |-> 6, day |-> 2]

Dates == {[FirstDay EXCEPT !.day = FirstDay.day + k] : k \in 0..(MaxDays - 1)}

\* --date values: the ISO form of each date, plus one fromisoformat rejects
BadDateArg == <<"2", "0", "2", "4", "-", "6", "-", "3">>

DateArgs == {isoformat(d) : d \in Dates} \cup {BadDateArg}

\* sample week numbers
Weeks == {3, 7}

ImageFiles == {"w.jpg", "gone.jpg"}

\* the dates calendar entries are scheduled on: a Sunday and the Monday after
ScheduledDates == {FirstDay, [FirstDay EXCEPT !.day = FirstDay.day + 1]}

\* the fields generate_post_text and main read with [] (post_type, content_data
\* are carried by one key each; their values are opaque to main)
EntryBase == [post_type |-> "gene", content_data |-> "facts"]

WithKey(d, k, v) == [x \in DOMAIN d \cup {k} |-> IF x = k THEN v ELSE d[x]]

\* an entry for date d, week w, with image_file f (Unset: no image_file key)
Entry(d, w, f) ==
    LET e == WithKey(WithKey(EntryBase, "date", isoformat(d)), "week", w)
    IN  IF f = Unset THEN e ELSE WithKey(e, "image_file", f)

\* calendar entries main can meet: for the Sunday every week and image_file
\* (the file on disk, a file not on disk, no image_file), for the off-schedule
\* Monday every week with the file on disk
Entries ==
    {Entry(FirstDay, w, f) : w \in Weeks, f \in ImageFiles \cup {Unset}}
        \cup {Entry(d, w, "w.jpg") : d \in ScheduledDates \ {FirstDay}, w \in Weeks}

SeqsUpTo(S, n) == UNION {[1..k -> S] : k \in 0..n}

Calendars == SeqsUpTo(Entries, MaxCal)

EnvValues == {Unset, "set"}



-----------------------------------------------------------------------------
(* Responses of the external services.  A transport failure raises; an HTTP  *)
(* response has a status and a body that response.json() parses or not.      *)

TransportError == [raised |-> TRUE, exc |-> <<"ConnectionError">>]

Http(status, json_ok, json) ==
    [raised |-> FALSE, status |-> status, json_ok |-> json_ok, json |-> json]

\* client.messages.create: raises, or returns a message with 0 or 1 segments
GenerateResponses ==
    {[raised |-> TRUE, exc |-> <<"APIError">>],
     [raised |-> FALSE, content |-> <<>>],
     [raised |-> FALSE, content |-> <<"generated text">>]}

UserinfoResponses ==
    {TransportError, Http(401, FALSE, None), Http(201, FALSE, None), Http(200, FALSE, None),
     Http(200, TRUE, [sub |-> "u1", name |-> "Don"]), Http(200, TRUE, [name |-> "Don"])}

RegisterJson(asset) ==
    [value |-> [uploadUrl |-> "https://upload/" \o asset, asset |-> asset]]

RegisterResponses ==
    {TransportError, Http(401, FALSE, None), Http(201, TRUE, RegisterJson("a1")),
     Http(200, FALSE, None), Http(200, TRUE, None),
     Http(200, TRUE, RegisterJson("a1")), Http(200, TRUE, RegisterJson("a2"))}

UploadResponses ==
    {TransportError, Http(401, FALSE, None), Http(200, FALSE, None), Http(201, FALSE, None)}

PublishResponses ==
    {TransportError, Http(401, FALSE, None), Http(200, TRUE, [id |-> "p1"]),
     Http(201, TRUE, [id |-> "p1"]), Http(201, FALSE, None)}

WebhookResponses == {TransportError, Http(200, FALSE, None)}

-----------------------------------------------------------------------------
(* Results of a call: a returned value or a raised exception *)

Return(v) == [raised |-> FALSE, value |-> v]

Raise(e) == [raised |-> TRUE, exc |-> e]

-----------------------------------------------------------------------------
(* post_to_linkedin.py: the functions main calls *)

\* the loop taking the first entry that has a date at all
ScanCalendar_AnyDated(cal, target_str, i) ==
    LET dated == {j \in i..Len(cal) : DictGet(cal[j], "date", None) # None}
    IN  IF dated = {} THEN 0 ELSE CHOOSE j \in dated : \A k \in dated : j <= k

\* the loop that keeps the last entry it finds instead of returning the first
ScanCalendar_Last(cal, target_str, i) ==
    LET hits == {j \in i..Len(cal) : DictGet(cal[j], "date", None) = target_str}
    IN  IF hits = {} THEN 0 ELSE CHOOSE j \in hits : \A k \in hits : j >= k

\* the for loop of get_todays_post from index i on: the index of the first
\* entry whose 'date' equals target_str, 0 when the loop falls through
RECURSIVE ScanCalendar(_, _, _)
ScanCalendar(cal, target_str, i) ==
    IF i > Len(cal) THEN 0
    ELSE IF DictGet(cal[i], "date", None) = target_str THEN i
    ELSE ScanCalendar(cal, target_str, i + 1)

\* target_date defaults to date.today()
get_todays_post(cal, date) ==
    LET target == IF date = None THEN today ELSE date
        i == ScanCalendar(cal, isoformat(target), 1)
    IN  IF i = 0 THEN None ELSE cal[i]

\* the user prompt: post_type, week and the serialized content_data
user_prompt(post_data) ==
    <<"Generate a LinkedIn post for the following content:",
      post_data.post_type, post_data.week, post_data.content_data>>

\* generation that swallows a failed call and returns an empty text
generate_post_text_Swallow(r) ==
    IF r.raised THEN Return("")
    ELSE IF Len(r.content) = 0 THEN Raise(<<"IndexError">>)
    ELSE Return(r.content[1])

generate_post_text(r) ==
    IF r.raised THEN Raise(r.exc)
    ELSE IF Len(r.content) = 0 THEN Raise(<<"IndexError">>)
    ELSE Return(r.content[1])

get_person_urn(r) ==
    IF r.raised THEN Raise(r.exc)
    ELSE IF r.status # 200 THEN Raise(<<"Failed to get LinkedIn user info: ", r.status>>)
    ELSE IF ~r.json_ok THEN Raise(<<"JSONDecodeError">>)
    ELSE Return("urn:li:person:" \o DictGet(r.json, "sub", "None"))

\* step 1 taking 201 for success too, as step 2 and the publish call do
register_upload_2xx(r) ==
    IF r.raised THEN Raise(r.exc)
    ELSE IF r.status \notin {200, 201} THEN Raise(<<"LinkedIn upload registration failed: ", r.status>>)
    ELSE IF ~r.json_ok THEN Raise(<<"JSONDecodeError">>)
    ELSE IF "value" \notin DOMAIN r.json THEN Raise(<<"KeyError">>)
    ELSE Return([upload_url |-> r.json.value.uploadUrl, asset_urn |-> r.json.value.asset])

\* step 1 of upload_image_to_linkedin: the registerUpload response
register_upload(r) ==
    IF r.raised THEN Raise(r.exc)
    ELSE IF r.status # 200 THEN Raise(<<"LinkedIn upload registration failed: ", r.status>>)
    ELSE IF ~r.json_ok THEN Raise(<<"JSONDecodeError">>)
    ELSE IF "value" \notin DOMAIN r.json THEN Raise(<<"KeyError">>)
    ELSE Return([upload_url |-> r.json.value.uploadUrl, asset_urn |-> r.json.value.asset])

\* step 2 without the check of the PUT's status
upload_binary_NoStatusCheck(r, asset) ==
    IF r.raised THEN Raise(r.exc) ELSE Return(asset)

\* step 2 of upload_image_to_linkedin: the PUT response; returns the asset
\* URN of step 1
upload_binary(r, asset) ==
    IF r.raised THEN Raise(r.exc)
    ELSE IF r.status \notin {200, 201} THEN Raise(<<"LinkedIn image upload failed: ", r.status>>)
    ELSE Return(asset)

create_linkedin_post(r) ==
    IF r.raised THEN Raise(r.exc)
    ELSE IF r.status \notin {200, 201} THEN Raise(<<"LinkedIn post creation failed: ", r.status>>)
    ELSE IF ~r.json_ok THEN Raise(<<"JSONDecodeError">>)
    ELSE Return(r.json)

\* send_slack_notification without its try/except
SlackRaises_Propagates(r) == r.raised

\* the try/except of send_slack_notification: does the POST's exception reach
\* the caller
SlackRaises(r) == FALSE

slack_payload(message, success) ==
    [text |-> <<(IF success THEN "white_check_mark" ELSE "x"), message>>,
     username |-> "Bioscope LinkedIn Bot"]

Call(api, request, response) == [api |-> api, request |-> request, response |-> response]

\* send_slack_notification(message, success), the webhook answering r
send_slack_notification(message, success, r) ==
    /\ notified' = Append(notified, [message |-> message, success |-> success])
    /\ IF ~Truthy(config.SLACK_WEBHOOK_URL)
       THEN calls' = calls
       ELSE calls' = Append(calls, Call("webhook", slack_payload(message, success), r))

\* the gate without its force override
NotScheduled_NoForce(day_name, force) == day_name \notin DOMAIN POSTING_DAYS

\* main, line 277
NotScheduled(day_name, force) == day_name \notin DOMAIN POSTING_DAYS /\ ~force

\* the validation asking for the access token in a dry run too
ConfigMissing_TokenAlways(dry_run, cfg) ==
    \/ ~Truthy(cfg.LINKEDIN_ACCESS_TOKEN)
    \/ ~Truthy(cfg.ANTHROPIC_API_KEY)

\* main, lines 282-289
ConfigMissing(dry_run, cfg) ==
    \/ ~dry_run /\ ~Truthy(cfg.LINKEDIN_ACCESS_TOKEN)
    \/ ~Truthy(cfg.ANTHROPIC_API_KEY)

\* a dry run that goes on like any other run
DryRunStops_Never(dry_run) == FALSE

\* main, line 313
DryRunStops(dry_run) == dry_run

success_message(p) ==
    <<"Posted Week ", p.week, " ", p.post_type, ": ", DictGet(p, "title", "Untitled")>>

\* the failure message without the exception's text
failure_message_NoError(p, e) == <<"FAILED to post Week ", p.week, ": ", None>>

failure_message(p, e) == <<"FAILED to post Week ", p.week, ": ", e>>

-----------------------------------------------------------------------------
(* One run of main *)

Init ==
    /\ args \in [dry_run : BOOLEAN, date : DateArgs \cup {None}, force : BOOLEAN]
    /\ today \in Dates
    /\ args.date # None => today = FirstDay
    /\ args.date = None => today \in ScheduledDates
    /\ config \in [ANTHROPIC_API_KEY : EnvValues, LINKEDIN_ACCESS_TOKEN : EnvValues,
                   SLACK_WEBHOOK_URL : EnvValues]
    /\ calendar \in Calendars
    /\ pc = "start"
    /\ target_date = None
    /\ post = None
    /\ post_text = Unset
    /\ person_urn = Unset
    /\ upload_url = Unset
    /\ asset_urn = Unset
    /\ error = None
    /\ exit_code = 0
    /\ calls = <<>>
    /\ notified = <<>>
    /\ steps = <<>>
    /\ auth_code = None
    /\ elapsed = 0
    /\ token_data = None
    /\ handled = <<>>
    /\ loop_end = Unset

\* return from main (status 0 unless set), sys.exit(1), or an exception nobody
\* catches (the interpreter prints the traceback and exits 1)
Exit(code) == pc' = "exited" /\ exit_code' = code

Uncaught(e) == error' = e /\ Exit(1)

\* lines 267-274: target date from --date, else today
ResolveTargetDate ==
    /\ steps' = Append(steps, "ResolveTargetDate")
    /\ UNCHANGED oauth_vars
    /\ pc = "start"
    /\ IF args.date # None
       THEN IF IsIsoDate(args.date)
            THEN /\ target_date' = fromisoformat(args.date)
                 /\ pc' = "check_day"
                 /\ UNCHANGED <<error, exit_code>>
            ELSE /\ Uncaught(<<"ValueError">>)
                 /\ UNCHANGED target_date
       ELSE /\ target_date' = today
            /\ pc' = "check_day"
            /\ UNCHANGED <<error, exit_code>>
    /\ UNCHANGED <<args, today, config, calendar, post, post_text, person_urn,
                   upload_url, asset_urn, calls, notified>>

\* lines 276-279: the weekday gate
CheckPostingDay ==
    /\ steps' = Append(steps, "CheckPostingDay")
    /\ UNCHANGED oauth_vars
    /\ pc = "check_day"
    /\ IF NotScheduled(day_name_of(target_date), args.force)
       THEN Exit(0)
       ELSE pc' = "validate" /\ UNCHANGED exit_code
    /\ UNCHANGED <<args, today, config, calendar, target_date, post, post_text,
                   person_urn, upload_url, asset_urn, error, calls, notified>>

\* lines 281-289: required credentials
ValidateConfig ==
    /\ steps' = Append(steps, "ValidateConfig")
    /\ UNCHANGED oauth_vars
    /\ pc = "validate"
    /\ IF ConfigMissing(args.dry_run, config)
       THEN Exit(1)
       ELSE pc' = "load" /\ UNCHANGED exit_code
    /\ UNCHANGED <<args, today, config, calendar, target_date, post, post_text,
                   person_urn, upload_url, asset_urn, error, calls, notified>>

\* lines 291-299: load the calendar and look the target date up
FindPost ==
    /\ steps' = Append(steps, "FindPost")
    /\ UNCHANGED oauth_vars
    /\ pc = "load"
    /\ post' = get_todays_post(calendar, target_date)
    /\ IF post' = None
       THEN Exit(0) /\ UNCHANGED error
       ELSE IF {"week", "post_type"} \subseteq DOMAIN post'
            THEN pc' = "generate" /\ UNCHANGED <<error, exit_code>>
            ELSE Uncaught(<<"KeyError">>)
    /\ UNCHANGED <<args, today, config, calendar, target_date, post_text, person_urn,
                   upload_url, asset_urn, calls, notified>>

\* lines 301-315: one messages.create call; a dry run stops after it
GenerateText ==
    /\ steps' = Append(steps, "GenerateText")
    /\ UNCHANGED oauth_vars
    /\ pc = "generate"
    /\ IF "content_data" \notin DOMAIN post
       THEN Uncaught(<<"KeyError">>) /\ UNCHANGED <<calls, post_text>>
       ELSE \E r \in GenerateResponses :
              LET res == generate_post_text(r) IN
              /\ calls' = Append(calls, Call("messages.create", user_prompt(post), r))
              /\ IF res.raised
                 THEN Uncaught(res.exc) /\ UNCHANGED post_text
                 ELSE /\ post_text' = res.value
                      /\ UNCHANGED error
                      /\ IF DryRunStops(args.dry_run)
                         THEN Exit(0)
                         ELSE pc' = "image" /\ UNCHANGED exit_code
    /\ UNCHANGED <<args, today, config, calendar, target_date, post, person_urn,
                   upload_url, asset_urn, notified>>

\* lines 317-326: image_file present and the file exists, else sys.exit(1)
ValidateImage ==
    /\ steps' = Append(steps, "ValidateImage")
    /\ UNCHANGED oauth_vars
    /\ pc = "image"
    /\ LET image_filename == DictGet(post, "image_file", Unset) IN
       IF ~Truthy(image_filename) \/ image_filename \notin ImagesOnDisk
       THEN Exit(1)
       ELSE pc' = "userinfo" /\ UNCHANGED exit_code
    /\ UNCHANGED <<args, today, config, calendar, target_date, post, post_text,
                   person_urn, upload_url, asset_urn, error, calls, notified>>

\* an exception inside the try block: control goes to the except clause
Caught(e) == error' = e /\ pc' = "except"

\* lines 329-330
GetPersonUrn ==
    /\ steps' = Append(steps, "GetPersonUrn")
    /\ UNCHANGED oauth_vars
    /\ pc = "userinfo"
    /\ \E r \in UserinfoResponses :
         LET res == get_person_urn(r) IN
         /\ calls' = Append(calls, Call("userinfo", [token |-> config.LINKEDIN_ACCESS_TOKEN], r))
         /\ IF res.raised
            THEN Caught(res.exc) /\ UNCHANGED person_urn
            ELSE person_urn' = res.value /\ pc' = "register" /\ UNCHANGED error
    /\ UNCHANGED <<args, today, config, calendar, target_date, post, post_text,
                   upload_url, asset_urn, exit_code, notified>>

\* lines 333-337, 141-169: step 1 of upload_image_to_linkedin
RegisterUpload ==
    /\ steps' = Append(steps, "RegisterUpload")
    /\ UNCHANGED oauth_vars
    /\ pc = "register"
    /\ \E r \in RegisterResponses :
         LET res == register_upload(r) IN
         /\ calls' = Append(calls, Call("registerUpload", [owner |-> person_urn], r))
         /\ IF res.raised
            THEN Caught(res.exc) /\ UNCHANGED <<upload_url, asset_urn>>
            ELSE /\ upload_url' = res.value.upload_url
                 /\ asset_urn' = res.value.asset_urn
                 /\ pc' = "upload"
                 /\ UNCHANGED error
    /\ UNCHANGED <<args, today, config, calendar, target_date, post, post_text,
                   person_urn, exit_code, notified>>

\* lines 171-193: step 2 of upload_image_to_linkedin
UploadBinary ==
    /\ steps' = Append(steps, "UploadBinary")
    /\ UNCHANGED oauth_vars
    /\ pc = "upload"
    /\ \E r \in UploadResponses :
         LET res == upload_binary(r, asset_urn) IN
         /\ calls' = Append(calls, Call("upload", [url |-> upload_url, data |-> post.image_file], r))
         /\ IF res.raised
            THEN Caught(res.exc) /\ UNCHANGED asset_urn
            ELSE asset_urn' = res.value /\ pc' = "publish" /\ UNCHANGED error
    /\ UNCHANGED <<args, today, config, calendar, target_date, post, post_text,
                   person_urn, upload_url, exit_code, notified>>

\* lines 339-345, 196-240
CreatePost ==
    /\ steps' = Append(steps, "CreatePost")
    /\ UNCHANGED oauth_vars
    /\ pc = "publish"
    /\ \E r \in PublishResponses :
         LET res == create_linkedin_post(r) IN
         /\ calls' = Append(calls, Call("posts",
                [author |-> person_urn, commentary |-> post_text, media_id |-> asset_urn], r))
         /\ IF res.raised
            THEN Caught(res.exc)
            ELSE pc' = "notify" /\ UNCHANGED error
    /\ UNCHANGED <<args, today, config, calendar, target_date, post, post_text,
                   person_urn, upload_url, asset_urn, exit_code, notified>>

\* lines 347-351: the success notification, still inside the try block
NotifySuccess ==
    /\ steps' = Append(steps, "NotifySuccess")
    /\ UNCHANGED oauth_vars
    /\ pc = "notify"
    /\ \E r \in WebhookResponses :
         /\ send_slack_notification(success_message(post), TRUE, r)
         /\ IF Truthy(config.SLACK_WEBHOOK_URL) /\ r.raised /\ SlackRaises(r)
            THEN Caught(r.exc) /\ UNCHANGED exit_code
            ELSE Exit(0) /\ UNCHANGED error
    /\ UNCHANGED <<args, today, config, calendar, target_date, post, post_text,
                   person_urn, upload_url, asset_urn>>

\* lines 356-359: except Exception as e
HandleFailure ==
    /\ steps' = Append(steps, "HandleFailure")
    /\ UNCHANGED oauth_vars
    /\ pc = "except"
    /\ \E r \in WebhookResponses :
         send_slack_notification(failure_message(post, error), FALSE, r)
    /\ Exit(1)
    /\ UNCHANGED <<args, today, config, calendar, target_date, post, post_text,
                   person_urn, upload_url, asset_urn, error>>

Next ==
    \/ ResolveTargetDate
    \/ CheckPostingDay
    \/ ValidateConfig
    \/ FindPost
    \/ GenerateText
    \/ ValidateImage
    \/ GetPersonUrn
    \/ RegisterUpload
    \/ UploadBinary
    \/ CreatePost
    \/ NotifySuccess
    \/ HandleFailure

Spec == Init /\ [][Next]_vars

TypeOK ==
    /\ args \in [dry_run : BOOLEAN, date : DateArgs \cup {None}, force : BOOLEAN]
    /\ today \in Dates
    /\ config \in [ANTHROPIC_API_KEY : EnvValues, LINKEDIN_ACCESS_TOKEN : EnvValues,
                   SLACK_WEBHOOK_URL : EnvValues]
    /\ calendar \in Calendars
    /\ exit_code \in {0, 1}
    /\ pc \in {"start", "check_day", "validate", "load", "generate", "image", "userinfo",
               "register", "upload", "publish", "notify", "except", "exited"}

-----------------------------------------------------------------------------
(* get_todays_post on its own: any calendar, any target date *)

\* a date string isoformat never produces
UnpaddedDate == <<"2", "0", "2", "4", "-", "6", "-", "2">>

\* entries with a date, with a date written another way, or with no date
LookupEntries ==
    LET undated == {[week |-> w] : w \in Weeks}
    IN  undated \cup {WithKey(e, "date", ds) : e \in undated,
                        ds \in {isoformat(d) : d \in Dates} \cup {UnpaddedDate}}

InitLookup ==
    /\ calendar \in SeqsUpTo(LookupEntries, MaxLookupLen)
    /\ today \in Dates
    /\ target_date \in Dates \cup {None}
    /\ target_date # None => today = FirstDay
    /\ args = [dry_run |-> FALSE, date |-> None, force |-> FALSE]
    /\ config = [ANTHROPIC_API_KEY |-> Unset, LINKEDIN_ACCESS_TOKEN |-> Unset,
                 SLACK_WEBHOOK_URL |-> Unset]
    /\ pc = "lookup"
    /\ post = None
    /\ post_text = Unset
    /\ person_urn = Unset
    /\ upload_url = Unset
    /\ asset_urn = Unset
    /\ error = None
    /\ exit_code = 0
    /\ calls = <<>>
    /\ notified = <<>>
    /\ steps = <<>>
    /\ auth_code = None
    /\ elapsed = 0
    /\ token_data = None
    /\ handled = <<>>
    /\ loop_end = Unset

\* one call of get_todays_post(calendar, target_date)
Lookup ==
    /\ pc = "lookup"
    /\ post' = get_todays_post(calendar, target_date)
    /\ pc' = "looked_up"
    /\ steps' = Append(steps, "Lookup")
    /\ UNCHANGED oauth_vars
    /\ UNCHANGED <<args, today, config, calendar, target_date, post_text, person_urn,
                   upload_url, asset_urn, error, exit_code, calls, notified>>

NextLookup == Lookup

SpecLookup == InitLookup /\ [][NextLookup]_vars

-----------------------------------------------------------------------------
(* scripts/get_linkedin_token.py: the OAuth helper.  The main thread and    *)
(* the listener thread share the global auth_code; each read of it by main  *)
(* (lines 166, 169, 177) and each callback request is one step.             *)

\* most callback requests one run of the helper handles
MaxRequests == 2

\* main, line 164: seconds the polling loop waits
timeout == 120

\* a str where None is possible too: None is <<>>, the str s is <<s>>
Str(s) == <<s>>

\* bool(v) of such a value
TruthyStr(v) == v # None /\ v[1] # ""

\* request.args.get(key)
ArgsGet(a, key) == IF key \in DOMAIN a THEN Str(a[key]) ELSE None

\* the values a query parameter of a callback request takes ("-": not sent)
ErrorParams == {"-", "", "user_cancelled_authorize"}

CodeParams == {"-", "c1", "c2"}

\* request.args of a callback request
QueryArgs(e, c) ==
    [k \in (IF e = "-" THEN {} ELSE {"error"}) \cup (IF c = "-" THEN {} ELSE {"code"})
        |-> IF k = "error" THEN e ELSE c]

CallbackRequests == {QueryArgs(e, c) : e \in ErrorParams, c \in CodeParams}

\* callback(), lines 103-107: the value of auth_code after the request
callback(a, cur) ==
    IF TruthyStr(ArgsGet(a, "error")) THEN cur ELSE ArgsGet(a, "code")

TokenJson == [access_token |-> "t1", expires_in |-> 5184000]

\* the answers of the accessToken endpoint ({} is None here: both are falsy)
TokenResponses ==
    {TransportError, Http(400, FALSE, None), Http(200, FALSE, None),
     Http(200, TRUE, None), Http(200, TRUE, TokenJson)}

HelperUserinfoResponses == {TransportError, Http(401, FALSE, None), Http(200, TRUE, [name |-> "Don"])}

OrganizationResponses ==
    {TransportError, Http(403, FALSE, None), Http(200, TRUE, [elements |-> <<>>])}

\* exchange_code_for_token, lines 63-69
exchange_code_for_token(r) ==
    IF r.raised THEN Raise(r.exc)
    ELSE IF r.status # 200 THEN Return(None)
    ELSE IF ~r.json_ok THEN Raise(<<"JSONDecodeError">>)
    ELSE Return(r.json)

\* the form data of the token request, lines 55-61
token_request(code) ==
    [grant_type |-> "authorization_code", code |-> code,
     client_id |-> config.CLIENT_ID, client_secret |-> config.CLIENT_SECRET]

\* get_user_info, lines 74-76
get_user_info(r) ==
    IF r.raised THEN Raise(r.exc)
    ELSE IF r.status # 200 THEN Return(None)
    ELSE IF ~r.json_ok THEN Raise(<<"JSONDecodeError">>)
    ELSE Return(r.json)

\* get_organization_info, lines 87-95
get_organization_info(r) ==
    IF r.raised THEN Raise(r.exc)
    ELSE IF r.status # 200 THEN Return(<<>>)
    ELSE IF ~r.json_ok THEN Raise(<<"JSONDecodeError">>)
    ELSE Return(DictGet(r.json, "elements", <<>>))

\* what a run of the helper leaves alone
poster_vars == <<args, today, calendar, target_date, post, post_text, person_urn,
                 upload_url, asset_urn, exit_code, notified>>

InitOAuth ==
    /\ config \in [CLIENT_ID : EnvValues, CLIENT_SECRET : EnvValues]
    /\ pc = "credentials"
    /\ auth_code = None
    /\ elapsed = 0
    /\ token_data = None
    /\ handled = <<>>
    /\ loop_end = Unset
    /\ error = None
    /\ calls = <<>>
    /\ steps = <<>>
    /\ args = [dry_run |-> FALSE, date |-> None, force |-> FALSE]
    /\ today = FirstDay
    /\ calendar = <<>>
    /\ target_date = None
    /\ post = None
    /\ post_text = Unset
    /\ person_urn = Unset
    /\ upload_url = Unset
    /\ asset_urn = Unset
    /\ exit_code = 0
    /\ notified = <<>>

\* main returns, or dies of an exception nobody catches; either way the
\* process ends and the daemon listener thread with it
Returned == pc' = "returned" /\ UNCHANGED error

Died(e) == pc' = "returned" /\ error' = e

\* the listener thread is started at line 161 and lives until main ends
Listening == pc \in {"poll", "sleep", "check", "exchange", "userinfo", "organizations"}

\* lines 129-136: a credential the environment does not set is asked for
ReadCredentials ==
    /\ pc = "credentials"
    /\ steps' = Append(steps, "ReadCredentials")
    /\ \E typed \in [CLIENT_ID : EnvValues, CLIENT_SECRET : EnvValues] :
         config' = [k \in DOMAIN config |-> IF Truthy(config[k]) THEN config[k] ELSE typed[k]]
    /\ IF ~Truthy(config'.CLIENT_ID) \/ ~Truthy(config'.CLIENT_SECRET)
       THEN pc' = "returned"
       ELSE pc' = "open"
    /\ UNCHANGED <<error, calls, oauth_vars, poster_vars>>

\* lines 143-165: open the browser, start the listener thread, start the clock
StartServer ==
    /\ pc = "open"
    /\ steps' = Append(steps, "StartServer")
    /\ pc' = "poll"
    /\ elapsed' = 0
    /\ UNCHANGED <<config, error, calls, auth_code, token_data, handled, loop_end, poster_vars>>

\* line 166: one evaluation of the loop condition
PollCondition ==
    /\ pc = "poll"
    /\ IF auth_code = None /\ elapsed < timeout
       THEN pc' = "sleep" /\ UNCHANGED loop_end
       ELSE /\ pc' = "check"
            /\ loop_end' = IF auth_code = None THEN "timeout" ELSE "code"
    /\ UNCHANGED <<config, error, calls, steps, auth_code, elapsed, token_data, handled,
                   poster_vars>>

\* line 167: time.sleep(1) takes a second, or longer
Sleep ==
    /\ pc = "sleep"
    /\ \E d \in {1, 2} : elapsed' = elapsed + d
    /\ pc' = "poll"
    /\ UNCHANGED <<config, error, calls, steps, auth_code, token_data, handled, loop_end,
                   poster_vars>>

\* lines 169-171: the check after the loop reads auth_code again
CheckCode ==
    /\ pc = "check"
    /\ steps' = Append(steps, "CheckCode")
    /\ IF auth_code = None THEN pc' = "returned" ELSE pc' = "exchange"
    /\ UNCHANGED <<config, error, calls, oauth_vars, poster_vars>>

\* lines 177-184: the token request is made with auth_code as it is now
ExchangeCode ==
    /\ pc = "exchange"
    /\ steps' = Append(steps, "ExchangeCode")
    /\ \E r \in TokenResponses :
         LET res == exchange_code_for_token(r) IN
         /\ calls' = Append(calls, Call("accessToken", token_request(auth_code), r))
         /\ IF res.raised
            THEN Died(res.exc) /\ UNCHANGED token_data
            ELSE /\ token_data' = res.value
                 /\ UNCHANGED error
                 /\ IF token_data' = None THEN pc' = "returned" ELSE pc' = "userinfo"
    /\ UNCHANGED <<config, auth_code, elapsed, handled, loop_end, poster_vars>>

\* lines 183, 197-201
GetUserInfo ==
    /\ pc = "userinfo"
    /\ steps' = Append(steps, "GetUserInfo")
    /\ \E r \in HelperUserinfoResponses :
         LET res == get_user_info(r) IN
         /\ calls' = Append(calls, Call("userinfo",
                                        [token |-> DictGet(token_data, "access_token", None)], r))
         /\ IF res.raised THEN Died(res.exc) ELSE pc' = "organizations" /\ UNCHANGED error
    /\ UNCHANGED <<config, oauth_vars, poster_vars>>

\* lines 205-227
GetOrganizationInfo ==
    /\ pc = "organizations"
    /\ steps' = Append(steps, "GetOrganizationInfo")
    /\ \E r \in OrganizationResponses :
         LET res == get_organization_info(r) IN
         /\ calls' = Append(calls, Call("organizationAcls",
                                        [token |-> DictGet(token_data, "access_token", None)], r))
         /\ IF res.raised THEN Died(res.exc) ELSE Returned
    /\ UNCHANGED <<config, oauth_vars, poster_vars>>

\* lines 98-117: the listener thread handles one callback request
Callback ==
    /\ Listening
    /\ Len(handled) < MaxRequests
    /\ \E a \in CallbackRequests :
         /\ auth_code' = callback(a, auth_code)
         /\ handled' = Append(handled, [args |-> a, before |-> auth_code, after |-> auth_code'])
    /\ UNCHANGED <<config, pc, error, calls, steps, elapsed, token_data, loop_end, poster_vars>>

NextOAuth ==
    \/ ReadCredentials
    \/ StartServer
    \/ PollCondition
    \/ Sleep
    \/ CheckCode
    \/ ExchangeCode
    \/ GetUserInfo
    \/ GetOrganizationInfo
    \/ Callback

SpecOAuth == InitOAuth /\ [][NextOAuth]_vars

-----------------------------------------------------------------------------
(* Vocabulary of the properties *)

Did(step) == \E i \in DOMAIN steps : steps[i] = step

CallsTo(api) == {i \in DOMAIN calls : calls[i].api = api}

\* June 2024: the 2nd is a Sunday, the 4th a Tuesday, the 6th a Thursday
InScheduleTable(d) == d.month = 6 /\ d.year = 2024 /\ d.day % 7 \in {2, 4, 6}

KeyPresent == config.ANTHROPIC_API_KEY = "set"

TokenPresent == config.LINKEDIN_ACCESS_TOKEN = "set"

WebhookConfigured == config.SLACK_WEBHOOK_URL = "set"

\* the credentials the mode requires
CredentialsPresent == KeyPresent /\ (args.dry_run \/ TokenPresent)

-----------------------------------------------------------------------------
(* C1 *)

\* a run the weekday gate stops: nothing on the network, status 0, no lookup
GateStops ==
    (Did("CheckPostingDay") /\ ~InScheduleTable(target_date) /\ ~args.force)
        => /\ pc = "exited" /\ exit_code = 0
           /\ calls = <<>> /\ notified = <<>>
           /\ ~Did("ValidateConfig") /\ ~Did("FindPost")

\* a run the weekday gate lets through goes on to the credential check
GatePasses ==
    (Did("CheckPostingDay") /\ (InScheduleTable(target_date) \/ args.force))
        => (pc = "validate" \/ Did("ValidateConfig"))

\* C1 as stated: a run whose weekday is outside the schedule table and that is
\* not forced makes no network call and exits 0; every other run passes the
\* gate and goes on to the calendar lookup, whatever the credentials.
C1_AsStated ==
    /\ GateStops
    /\ GatePasses
    /\ (pc = "exited" /\ Did("CheckPostingDay")
            /\ (InScheduleTable(target_date) \/ args.force))
        => Did("FindPost")

\* C1 (amended): a run whose weekday is outside the schedule table and that is
\* not forced makes no network call and exits 0; every other run passes the
\* gate, and goes on to the calendar lookup for that date exactly when the
\* credentials its mode requires are present (else it exits 1 before the
\* lookup, with no network call).
C1_WeekdayGate ==
    /\ GateStops
    /\ GatePasses
    /\ (pc = "exited" /\ Did("CheckPostingDay")
            /\ (InScheduleTable(target_date) \/ args.force))
        => IF CredentialsPresent
           THEN /\ Did("FindPost")
                /\ post # None => post.date = isoformat(target_date)
           ELSE ~Did("FindPost") /\ exit_code = 1 /\ calls = <<>>

\* a forced run on a Monday that looked the calendar up
C1_Witness ==
    /\ pc = "exited" /\ Did("FindPost")
    /\ args.force /\ ~InScheduleTable(target_date)

-----------------------------------------------------------------------------
(* C2 *)

HasEntryFor(d) ==
    \E i \in DOMAIN calendar :
        "date" \in DOMAIN calendar[i] /\ calendar[i].date = isoformat(d)

\* the run's weekday is in the schedule table and the calendar has no entry
\* for its date
ScheduledButNoEntry ==
    Did("CheckPostingDay") /\ InScheduleTable(target_date) /\ ~HasEntryFor(target_date)

NoGenerationOrPublishCalls ==
    \A i \in DOMAIN calls :
        calls[i].api \notin {"messages.create", "userinfo", "registerUpload", "upload", "posts"}

\* C2 as stated: a run on a scheduled weekday whose date has no calendar entry
\* makes no text-generation or publish-related call and exits 0.
C2_AsStated ==
    ScheduledButNoEntry
        => /\ NoGenerationOrPublishCalls
           /\ pc = "exited" => exit_code = 0

\* C2 (amended): a run on a scheduled weekday whose date has no calendar entry
\* makes no text-generation or publish-related call; it exits 0 when the
\* credentials its mode requires are present and 1, before the lookup, when
\* one is absent.
C2_NoEntry ==
    ScheduledButNoEntry
        => /\ NoGenerationOrPublishCalls
           /\ calls = <<>> /\ notified = <<>>
           /\ pc = "exited" =>
                IF CredentialsPresent
                THEN exit_code = 0 /\ Did("FindPost") /\ post = None
                ELSE exit_code = 1 /\ ~Did("FindPost")

\* a Sunday or Tuesday run that looked up a calendar holding only other dates
C2_Witness ==
    /\ pc = "exited" /\ Did("FindPost") /\ ScheduledButNoEntry
    /\ Len(calendar) > 0 /\ exit_code = 0

-----------------------------------------------------------------------------
(* C3 *)

\* the generation call returned text
GeneratedText ==
    \E i \in CallsTo("messages.create") :
        ~calls[i].response.raised /\ Len(calls[i].response.content) > 0

\* C3: a dry run never validates the image path and never calls userinfo,
\* registerUpload, the binary upload, the publish endpoint or the webhook; a
\* dry run that generated text exits 0.
C3_DryRun ==
    args.dry_run
        => /\ \A st \in {"ValidateImage", "GetPersonUrn", "RegisterUpload", "UploadBinary",
                         "CreatePost", "NotifySuccess", "HandleFailure"} : ~Did(st)
           /\ \A i \in DOMAIN calls : calls[i].api = "messages.create"
           /\ notified = <<>>
           /\ (pc = "exited" /\ GeneratedText) => exit_code = 0

\* a dry run without an access token that generated text from an entry that
\* has no usable image
C3_Witness ==
    /\ pc = "exited" /\ args.dry_run /\ GeneratedText /\ ~TokenPresent
    /\ post # None /\ "image_file" \notin DOMAIN post

-----------------------------------------------------------------------------
(* C4 *)

\* the entry of the run: the calendar entry at the lowest index that carries
\* the target date
FirstEntryFor(d) ==
    calendar[CHOOSE i \in DOMAIN calendar :
        /\ "date" \in DOMAIN calendar[i] /\ calendar[i].date = isoformat(d)
        /\ \A j \in 1..(i - 1) :
             ~("date" \in DOMAIN calendar[j] /\ calendar[j].date = isoformat(d))]

\* a webhook call that reports a failure for week w
IsFailurePost(c, w) ==
    /\ c.api = "webhook"
    /\ c.request.text[1] = "x"
    /\ c.request.text[2][1] = "FAILED to post Week "
    /\ c.request.text[2][2] = w

RegisterRejected ==
    \E i \in CallsTo("registerUpload") :
        ~calls[i].response.raised /\ calls[i].response.status # 200

\* C4: once registerUpload answered with a status other than 200, there is no
\* binary upload and no publish call, the run ends with a non-zero status and,
\* with a webhook configured, with exactly one webhook POST: a failure message
\* that carries the entry's week number.
C4_RegisterRejected ==
    RegisterRejected
        => /\ CallsTo("upload") = {} /\ CallsTo("posts") = {}
           /\ pc \in {"except", "exited"}
           /\ pc = "exited" =>
                /\ exit_code # 0
                /\ WebhookConfigured =>
                     /\ Cardinality(CallsTo("webhook")) = 1
                     /\ \A i \in CallsTo("webhook") :
                          IsFailurePost(calls[i], FirstEntryFor(target_date).week)
                /\ ~WebhookConfigured => CallsTo("webhook") = {}

\* registerUpload answered 201, the webhook is configured, the run is over
C4_Witness ==
    /\ pc = "exited" /\ RegisterRejected /\ WebhookConfigured
    /\ \E i \in CallsTo("registerUpload") : calls[i].response.status = 201

-----------------------------------------------------------------------------
(* C5 *)

LinkedInApis == {"userinfo", "registerUpload", "upload", "posts"}

\* the service did not answer, answered with a status the step does not
\* accept, or with a body the step cannot read
CallRejected(c) ==
    IF c.response.raised THEN TRUE
    ELSE \/ c.api \in {"userinfo", "registerUpload"} /\ c.response.status # 200
         \/ c.api \in {"upload", "posts"} /\ c.response.status \notin {200, 201}
         \/ c.api \in {"userinfo", "registerUpload", "posts"} /\ ~c.response.json_ok
         \/ c.api = "registerUpload" /\ "value" \notin DOMAIN c.response.json

\* identity resolution, upload or publish failed
PublishPathFailed ==
    \E i \in DOMAIN calls : calls[i].api \in LinkedInApis /\ CallRejected(calls[i])

\* image-path validation failed: the entry names no image, or one not on disk
ImageInvalid ==
    /\ Did("ValidateImage")
    /\ LET e == FirstEntryFor(target_date)
       IN  "image_file" \notin DOMAIN e \/ e.image_file \notin {"w.jpg"}

\* one failure report: week number and error text, posted when a webhook is
\* configured
FailureReported ==
    /\ Len(notified) = 1
    /\ ~notified[1].success
    /\ notified[1].message[1] = "FAILED to post Week "
    /\ notified[1].message[2] = FirstEntryFor(target_date).week
    /\ notified[1].message[4] # <<>>
    /\ \A i \in DOMAIN calls :
         (calls[i].api \in LinkedInApis /\ CallRejected(calls[i]))
            => IF calls[i].response.raised
               THEN notified[1].message[4] = calls[i].response.exc
               ELSE (calls[i].response.status # 200 /\ ~(calls[i].api \in {"upload", "posts"}
                                                        /\ calls[i].response.status = 201))
                        => notified[1].message[4][2] = calls[i].response.status
    /\ IF WebhookConfigured
       THEN /\ Cardinality(CallsTo("webhook")) = 1
            /\ \A i \in CallsTo("webhook") :
                 /\ IsFailurePost(calls[i], FirstEntryFor(target_date).week)
                 /\ calls[i].request.text[2] = notified[1].message
       ELSE CallsTo("webhook") = {}

\* C5 as stated: after text generation in a non-dry run, a failure of image
\* validation, identity resolution, upload or publish is reported to the
\* Notifier (week number and error text) and the run ends non-zero.
C5_AsStated ==
    (pc = "exited" /\ ~args.dry_run /\ GeneratedText /\ (ImageInvalid \/ PublishPathFailed))
        => /\ exit_code # 0
           /\ WebhookConfigured =>
                /\ Cardinality(CallsTo("webhook")) = 1
                /\ \A i \in CallsTo("webhook") :
                     IsFailurePost(calls[i], FirstEntryFor(target_date).week)

\* C5 (amended): after text generation in a non-dry run, a failure of identity
\* resolution, upload or publish is reported to the Notifier (week number and
\* error text; a webhook POST when one is configured) and the run ends
\* non-zero; a failure of image-path validation ends the run non-zero with no
\* report to the Notifier and no call to LinkedIn or the webhook.
C5_LaterFailures ==
    (pc = "exited" /\ ~args.dry_run /\ GeneratedText)
        => /\ PublishPathFailed => FailureReported /\ exit_code # 0
           /\ ImageInvalid =>
                /\ exit_code # 0
                /\ notified = <<>>
                /\ \A i \in DOMAIN calls : calls[i].api = "messages.create"

\* the publish call was refused with 401 and the webhook is configured
C5_Witness ==
    /\ pc = "exited" /\ WebhookConfigured
    /\ \E i \in CallsTo("posts") :
         ~calls[i].response.raised /\ calls[i].response.status = 401

-----------------------------------------------------------------------------
(* C6 *)

\* a dry run without the access token goes on to the calendar lookup
DryRunNeedsNoToken ==
    (pc = "exited" /\ args.dry_run /\ KeyPresent /\ ~TokenPresent /\ Did("ValidateConfig"))
        => Did("FindPost")

\* C6 as stated: with a required credential absent the process ends non-zero
\* and has made no network call; a dry run does not need the access token.
C6_AsStated ==
    /\ (pc = "exited" /\ ~CredentialsPresent) => (exit_code # 0 /\ calls = <<>>)
    /\ DryRunNeedsNoToken

\* C6 (amended): in a run that passes the weekday gate, an absent required
\* credential ends the process non-zero at the credential check, with no
\* network call made; a run the weekday gate stops exits 0 whatever the
\* credentials; a dry run does not need the access token.
C6_Credentials ==
    /\ (Did("ValidateConfig") /\ ~CredentialsPresent)
            => /\ pc = "exited" /\ exit_code # 0
               /\ calls = <<>> /\ notified = <<>>
               /\ ~Did("FindPost")
    /\ (pc = "exited" /\ ~CredentialsPresent /\ Did("CheckPostingDay")
            /\ ~Did("ValidateConfig"))
            => exit_code = 0 /\ calls = <<>>
    /\ (pc = "exited" /\ ~CredentialsPresent) => calls = <<>>
    /\ DryRunNeedsNoToken

\* a forced non-dry run with the API key but no access token, stopped at the
\* credential check
C6_Witness ==
    /\ pc = "exited" /\ Did("ValidateConfig") /\ ~args.dry_run
    /\ KeyPresent /\ ~TokenPresent /\ exit_code = 1

-----------------------------------------------------------------------------
(* C7 *)

GenerationFailed ==
    \E i \in CallsTo("messages.create") : calls[i].response.raised

NoLinkedInCalls == \A i \in DOMAIN calls : calls[i].api \notin LinkedInApis

\* C7 as stated: a failed generation call is reported through the Notifier (a
\* failure webhook POST when a webhook is configured), ends the run non-zero,
\* and no LinkedIn call is made.
C7_AsStated ==
    (pc = "exited" /\ GenerationFailed)
        => /\ exit_code # 0
           /\ NoLinkedInCalls
           /\ WebhookConfigured =>
                /\ Cardinality(CallsTo("webhook")) = 1
                /\ \A i \in CallsTo("webhook") : calls[i].request.text[1] = "x"

\* C7 (amended): a failed generation call ends the run non-zero and no
\* LinkedIn call is made; the failure is not reported through the Notifier
\* and no webhook POST is made: the exception leaves main uncaught.
C7_GenerationFails ==
    GenerationFailed
        => /\ pc = "exited" /\ exit_code # 0
           /\ NoLinkedInCalls
           /\ notified = <<>> /\ CallsTo("webhook") = {}
           /\ Len(calls) = 1

\* a non-dry run with everything in place whose generation call failed
C7_Witness ==
    /\ pc = "exited" /\ GenerationFailed /\ ~args.dry_run /\ WebhookConfigured
    /\ ~ImageInvalid

-----------------------------------------------------------------------------
(* C8 *)

\* the publish step succeeded: create_linkedin_post returned
PublishAccepted ==
    \E i \in CallsTo("posts") : ~CallRejected(calls[i])

WebhookRaised == \E i \in CallsTo("webhook") : calls[i].response.raised

\* C8: with no webhook configured no webhook call is made; after a publish
\* that succeeded the run exits 0 and reports no failure, whether the success
\* POST was delivered, raised, or was not made; after a failure on the publish
\* path the run exits non-zero whatever the failure POST did; at most one
\* notification is attempted.
C8_NotifierBestEffort ==
    /\ ~WebhookConfigured => CallsTo("webhook") = {}
    /\ Cardinality(CallsTo("webhook")) <= 1 /\ Len(notified) <= 1
    /\ (pc = "exited" /\ PublishAccepted)
            => /\ exit_code = 0
               /\ Len(notified) = 1 /\ notified[1].success
               /\ ~Did("HandleFailure")
    /\ (pc = "exited" /\ PublishPathFailed) => exit_code # 0
    /\ Did("NotifySuccess") => (pc = "exited" /\ exit_code = 0)
    /\ Did("HandleFailure") => (pc = "exited" /\ exit_code # 0)

\* the publish succeeded and the success POST to the webhook raised
C8_Witness ==
    /\ pc = "exited" /\ PublishAccepted /\ WebhookRaised /\ exit_code = 0

-----------------------------------------------------------------------------
(* C9 *)

\* the ISO text of a day of June 2024 before the 10th, written out
JuneText(d) == <<"2", "0", "2", "4", "-", "0", "6", "-", "0", Digits[d.day + 1]>>

\* the date get_todays_post looks for
LookupTarget == IF target_date = None THEN today ELSE target_date

\* the indices of the entries whose date is exactly the target's ISO text
Matches ==
    {i \in DOMAIN calendar :
        "date" \in DOMAIN calendar[i] /\ calendar[i].date = JuneText(LookupTarget)}

FirstMatchReturned ==
    pc = "looked_up"
        => IF Matches = {}
           THEN post = None
           ELSE /\ \E i \in Matches : (\A j \in Matches : i <= j) /\ post = calendar[i]
                /\ post.date = JuneText(LookupTarget)

\* C9: get_todays_post returns the entry at the lowest index whose date is
\* exactly the target date's ISO string, None when there is none, never an
\* entry of another date, and it leaves the calendar as it was.
C9_FirstMatch == []FirstMatchReturned /\ [][calendar' = calendar]_vars

\* an undated entry, then two entries of the target date with different weeks:
\* the first of the two is returned
C9_Witness ==
    /\ pc = "looked_up" /\ Len(calendar) = 3
    /\ "date" \notin DOMAIN calendar[1]
    /\ Matches = {2, 3}
    /\ calendar[2].week # calendar[3].week
    /\ post = calendar[2]

-----------------------------------------------------------------------------
(* C10 *)

\* the fixed order of the external calls
Rank(api) ==
    CASE api = "messages.create" -> 1
      [] api = "userinfo" -> 2
      [] api = "registerUpload" -> 3
      [] api = "upload" -> 4
      [] api = "posts" -> 5
      [] api = "webhook" -> 6

\* accepted, as the claim counts it: the generation call returned, userinfo
\* and registerUpload answered 200, the binary upload and the publish call
\* answered 200 or 201
Accepted(c) ==
    IF c.response.raised THEN FALSE
    ELSE CASE c.api = "messages.create" -> TRUE
           [] c.api \in {"userinfo", "registerUpload"} -> c.response.status = 200
           [] c.api \in {"upload", "posts"} -> c.response.status \in {200, 201}
           [] OTHER -> TRUE

\* in order, each at most once
InFixedOrder ==
    \A i, j \in DOMAIN calls : i < j => Rank(calls[i].api) < Rank(calls[j].api)

\* call j comes after every call of a lower rank, made and accepted
AfterAllEarlierAccepted(j) ==
    \A k \in 1..(Rank(calls[j].api) - 1) :
        \E i \in 1..(j - 1) : Rank(calls[i].api) = k /\ Accepted(calls[i])

\* the publish call carries the asset of the registerUpload response and the
\* URN made of the userinfo response's sub
PublishCarriesResults ==
    \A p \in CallsTo("posts") :
        /\ \E g \in CallsTo("registerUpload") :
             /\ g < p
             /\ calls[p].request.media_id = calls[g].response.json.value.asset
        /\ \E u \in CallsTo("userinfo") :
             /\ u < p
             /\ calls[p].request.author =
                  "urn:li:person:" \o (IF "sub" \in DOMAIN calls[u].response.json
                                       THEN calls[u].response.json.sub ELSE "None")
        /\ \E g \in CallsTo("messages.create") :
             calls[p].request.commentary = calls[g].response.content[1]

IsSuccessPost(c) == c.api = "webhook" /\ c.request.text[1] = "white_check_mark"

SuccessOnlyAfterPublish ==
    /\ \A w \in DOMAIN calls :
         IsSuccessPost(calls[w])
            => \E p \in 1..(w - 1) : calls[p].api = "posts" /\ Accepted(calls[p])
    /\ \A n \in DOMAIN notified :
         notified[n].success => \E p \in CallsTo("posts") : Accepted(calls[p])

-----------------------------------------------------------------------------
(* C11 *)

\* the authorization codes callback requests have stored in auth_code
StoredCodes == {handled[i].after : i \in {j \in DOMAIN handled : handled[j].after # None}}

\* a callback request that carries an error, as the handler tells it (line 104)
CarriesError(a) == TruthyStr(ArgsGet(a, "error"))

\* at most one token request, made with a code a callback stored
ExchangeOnceWithStoredCode ==
    /\ Cardinality(CallsTo("accessToken")) <= 1
    /\ \A x \in CallsTo("accessToken") : calls[x].request.code \in StoredCodes

ErrorLeavesCode ==
    \A i \in DOMAIN handled :
        CarriesError(handled[i].args) => handled[i].after = handled[i].before

\* the loop condition of line 166 failed on the clock, auth_code being None
LoopTimedOut == loop_end = "timeout"

\* C11 as stated: under every interleaving of callback requests with the
\* polling loop, the token request is made at most once and only with an
\* authorization code that a callback request stored in auth_code; a callback
\* request carrying an error leaves auth_code unchanged; and when the polling
\* loop ends at its timeout with no stored code, no token, userinfo or
\* organization request is made.
C11_AsStated ==
    /\ ExchangeOnceWithStoredCode
    /\ ErrorLeavesCode
    /\ LoopTimedOut => calls = <<>>

\* the second half of C11 alone: a loop that ended at its timeout with no
\* stored code is followed by no request
C11_TimeoutStops == LoopTimedOut => calls = <<>>

\* what the code does keep: at most one token request, made with the value
\* auth_code holds when line 177 reads it, which is a value a callback
\* request without an error left there (None when that request had no code
\* parameter); a request with a non-empty error parameter leaves
\* auth_code unchanged; a check at line 169 that reads None ends the run with
\* no request made.
C11_Kept ==
    /\ Cardinality(CallsTo("accessToken")) <= 1
    /\ \A x \in CallsTo("accessToken") :
         \E i \in DOMAIN handled :
            ~CarriesError(handled[i].args) /\ calls[x].request.code = handled[i].after
    /\ ErrorLeavesCode
    /\ (pc = "returned" /\ Did("CheckCode") /\ ~Did("ExchangeCode")) => calls = <<>>
====
